---- MODULE Spec2Model ----
(***************************************************************************)
(* frider: feed poller.  One run of the program (run) starts a pool of     *)
(* emailers (sendEmails), a pool of exec workers (processExecFeeds) and    *)
(* one worker per URL host (processDomainFeeds); the workers hand new      *)
(* items to the emailers over itemChan; the only durable state is the      *)
(* storage directory (storage.has / storage.set).                          *)
(***************************************************************************)
EXTENDS Integers, Sequences, FiniteSets, TLC

(* ------------------------------ bounds -------------------------------- *)
\* number of consecutive invocations of the program that are explored
MaxRuns == 3
\* number of environment failures (storage errors, failed fetches and
\* deliveries, kills of the process) per behaviour
MaxFaults == 1
\* capacity of the buffered channels (1000 in the program)
ChanCap == 2

(* ------------------------- program constants -------------------------- *)
\* sameDomainRequestDelay, in seconds
sameDomainRequestDelay == 2

(* ------------------------------- data --------------------------------- *)
\* gofeed.Item: GUID and Link are codes of strings, 0 the empty string.
\* uidOk: the item_uid template executes on the item; tpl: the first of the
\* sender / subject / content templates that fails on it ("ok": none does).
Item(g, l) == [guid |-> g, link |-> l, uidOk |-> TRUE, tpl |-> "ok"]
I1 == Item(1, 5)
I2 == Item(2, 6)
I3 == Item(3, 7)
\* an item without GUID whose link is the GUID of I3: same identity as I3
I3b == Item(0, 3)
\* an item the item_uid template fails on
Ibad == [guid |-> 4, link |-> 8, uidOk |-> FALSE, tpl |-> "ok"]
\* an item the subject template fails on
Itpl == [guid |-> 4, link |-> 8, uidOk |-> TRUE, tpl |-> "subject"]

\* gofeed.Feed: FeedLink is the code of a string (0: empty), uidOk: the
\* feed_uid template executes on the feed.
Feed(l, its) == [link |-> l, items |-> its, uidOk |-> TRUE]
NoFeed == [link |-> 0, items |-> <<>>, uidOk |-> FALSE]

\* FeedSpec: url.id is the code of the URL string, url.host the Host that
\* url.Parse finds in it, url.ok whether url.Parse succeeds; exec: len(Exec) > 0.
\* script[r]: the feeds the origin may serve during run r (the last entry
\* is kept for all later runs).
UrlSpec(n, id, host, script) ==
    [name |-> n, url |-> [id |-> id, host |-> host, ok |-> TRUE], exec |-> FALSE, script |-> script]
ExecSpec(n, script) ==
    [name |-> n, url |-> [id |-> 0, host |-> "", ok |-> TRUE], exec |-> TRUE, script |-> script]
BadUrlSpec(n) ==
    [name |-> n, url |-> [id |-> 9, host |-> "", ok |-> FALSE], exec |-> FALSE, script |-> <<{}>>]

\* the feeds of the configurations below
F12 == Feed(1, <<I1, I2>>)
F123 == Feed(1, <<I1, I2, I3>>)
F0 == Feed(1, <<>>)
F1 == Feed(1, <<I1>>)
F3 == Feed(1, <<I3>>)
F1b == Feed(1, <<I1, Ibad>>)
F1t == Feed(1, <<I1, Itpl, I3>>)
F13 == Feed(1, <<I1, I3>>)
F133 == Feed(1, <<I3, I3b>>)
Fempty == Feed(0, <<>>)
\* feeds whose first item the item_uid template fails on
Fb1 == Feed(1, <<Ibad, I1>>)
Fb2 == Feed(1, <<Ibad, I2>>)
\* a feed the feed_uid template fails on
Fbad == [link |-> 1, items |-> <<I1>>, uidOk |-> FALSE]

\* config.Feeds of the configurations that are explored
CfgGrow == << UrlSpec("A", 1, "h1", << {F12}, {F12}, {F123} >>) >>
CfgRetry == << ExecSpec("X", << {F1, F1b}, {F13, F133, F1t} >>) >>
CfgMirror == << UrlSpec("A", 1, "h1", << {F0}, {F3} >>),
                UrlSpec("B", 2, "h2", << {F0}, {F3} >>) >>
CfgHosts == << UrlSpec("A", 1, "h1", << {Fempty} >>),
               BadUrlSpec("Z"),
               UrlSpec("B", 2, "h1", << {Fempty} >>),
               UrlSpec("C", 3, "h2", << {Fempty} >>),
               ExecSpec("X", << {Fempty} >>) >>
CfgPool == << ExecSpec("X", << {Fb1}, {Fb2} >>),
              ExecSpec("Y", << {Fbad} >>),
              ExecSpec("Z", << {Fbad} >>) >>
\* two URLs that name one host in different letter case
CfgCase == << UrlSpec("A", 1, "h1", << {Fempty} >>),
              UrlSpec("B", 2, "H1", << {Fempty} >>) >>
\* two FeedSpecs on two hosts whose feeds have one FeedLink and different items
CfgTwin == << UrlSpec("A", 1, "h1", << {F3} >>),
              UrlSpec("B", 2, "h2", << {F0} >>) >>
Configs == {CfgGrow, CfgRetry, CfgMirror, CfgHosts, CfgPool, CfgCase, CfgTwin}

\* the workers: config.SMTP.Jobs emailers, config.Exec.Jobs exec workers,
\* and one domain worker per key of the domains map
Emailers == {"d1", "d2"}
ExecWorkers == {"x1", "x2"}
DomainWorkers == {"w1", "w2", "w3", "w4"}
Ingesters == ExecWorkers \cup DomainWorkers
Workers == Ingesters \cup Emailers
\* the goroutine that the hand-off of config.Feeds[i] starts, if it starts one
WorkerAt(i) == << "w1", "w2", "w3", "w4" >>[i]
\* the values of parsedURL.Host in the configurations
Hosts == {"h1", "h2", "H1"}
NoHost == "-"

(* ------------------------------ state --------------------------------- *)
VARIABLES
    cfg,        \* config.Feeds
    run,        \* which invocation of the program this is
    files,      \* storage: the paths of the entries that exist
    written,    \* storage: the entries whose content was written
    dirs,       \* storage: the shard directories that exist
    faults,     \* environment failures so far
    storeErr,   \* history: some storage.has or storage.set failed so far
    cpc,        \* run(): where the coordinator is
    ci,         \* run(): index of the next element of config.Feeds
    domains,    \* run(): the keys of the domains map
    feedCh,     \* execFeedCh ("exec") and the domains' channels: queued feed indices
    itemChan,   \* itemChan: queued feedItems
    closed,     \* the channels that have been closed
    wpc,        \* each worker's position
    whost,      \* domain workers: the host whose channel the worker ranges over
    loc,        \* ingestion workers: fs, f, seenFeed, position in f.Items
    ev,         \* emailers: the feedItem being handled
    buf,        \* emailers: content of the render buffer between events
    sent,       \* history: feedItems sent by the current processFeeds call
    setFailed,  \* history: identities whose store.set failed in the current call
    hasFailed,  \* history: a store.has of the current call hit a stat error
    snap,       \* history: storage entries at the start of the current call
    emitted,    \* history: identities sent on itemChan during this run
    taken,      \* history: number of feedItems received by emailers this run
    delivered,  \* history: identities whose sendEmail succeeded during this run
    lastFail,   \* history: per emailer, the identity whose sendEmail last failed
    markFailed, \* history: identities whose store.set by an emailer failed this run
    prev,       \* history: per FeedSpec, the feed its last complete processFeeds call saw
    lastFetch,  \* history: per host, how its latest fetch of this run ended
    fetched,    \* history: per FeedSpec, how its fetches or commands of this run ended
    pendingAtKill, \* history: identities sent but not in the store when the last run was killed
    newAtKill,  \* history: the feeds whose first processFeeds call the last kill interrupted
    setCalls,   \* store.set taken step by step: the calls in progress (used by SetSpec only)
    elapsed,    \* history: per host, time certain to have passed since its last fetch ended
    panicked    \* a send on a closed channel happened

vars == << cfg, run, files, written, dirs, faults, storeErr, cpc, ci, domains, feedCh,
           itemChan, closed, wpc, whost, loc, ev, buf, sent, setFailed, hasFailed,
           snap, emitted, taken, delivered, lastFail, markFailed, prev,
           lastFetch, elapsed, fetched, pendingAtKill, newAtKill, setCalls,
           panicked >>

(* --------------------------- pure functions --------------------------- *)
\* config.Exec.Jobs of the configurations
ExecJobs == IF cfg = CfgPool THEN 2 ELSE 1

\* the goroutines "for i := 0; i < config.Exec.Jobs; i++" starts
ExecPool == {<< "x1", "x2" >>[i] : i \in 1..ExecJobs}

\* {{or .Feed.FeedLink .FeedSpec.URL}}
feedLinkTpl(fs, f) == IF f.link # 0 THEN f.link ELSE fs.url.id

\* calcFeedUID: the rendered feed_uid template, a string of one part
calcFeedUID(fi) ==
    IF fi.f.uidOk THEN [err |-> FALSE, uid |-> << feedLinkTpl(cfg[fi.fs], fi.f) >>]
    ELSE [err |-> TRUE, uid |-> <<>>]

\* calcItemUID: feedLinkTpl + "|{{or .Item.GUID .Item.Link}}", a string of two parts
calcItemUID(fi) ==
    IF fi.i.uidOk
    THEN [err |-> FALSE,
          uid |-> << feedLinkTpl(cfg[fi.fs], fi.f),
                     IF fi.i.guid # 0 THEN fi.i.guid ELSE fi.i.link >>]
    ELSE [err |-> TRUE, uid |-> <<>>]

\* a digest that keeps the length of the identity only
Sha256_Weak(k) == Len(k)

\* sha256 of an identity, as a number: injective on the identities of the model
Sha256(k) ==
    IF Len(k) = 0 THEN 0
    ELSE IF Len(k) = 1 THEN 2 * k[1] + 1
    ELSE 2 * (10 * k[1] + k[2]) + 2

\* storage.keyPath: filepath.Join(s.path, h[:2], h)
keyPath(k) == << Sha256(k) % 4, Sha256(k) >>

\* filepath.Dir
Dir(kp) == kp[1]

\* storage.has: os.Stat of the entry; "ok": Stat answers, "stat": an error
\* other than not-exist
HasOutcomes == {"ok", "stat"}

\* a Stat error other than not-exist is taken for an entry that exists
has_FailClosed(k, out) == out # "ok" \/ keyPath(k) \in files

\* storage.has: true when Stat finds the entry, false on any error
has(k, out) == out = "ok" /\ keyPath(k) \in files

\* storage.set: MkdirAll, Create, Write; out names the step that fails
SetOutcomes == {"ok", "mkdir", "create", "write"}
setDirs(k, out) == IF out = "mkdir" THEN dirs ELSE dirs \cup {Dir(keyPath(k))}

\* the entry is removed again when writing its content fails
setFiles_Unlink(k, out) ==
    IF out \in {"mkdir", "create"} THEN files
    ELSE IF out = "write" THEN files \ {keyPath(k)}
    ELSE files \cup {keyPath(k)}

\* storage.set: the entry exists once os.Create succeeded
setFiles(k, out) == IF out \in {"mkdir", "create"} THEN files ELSE files \cup {keyPath(k)}
setWritten(k, out) ==
    IF out \in {"mkdir", "create"} THEN written
    ELSE IF out = "write" THEN written \ {keyPath(k)}
    ELSE written \cup {keyPath(k)}

\* an outcome other than "ok" is an environment failure and is counted
MayFail(out) == out = "ok" \/ faults < MaxFaults
Count(out) == IF out = "ok" THEN faults ELSE faults + 1

\* the feeds the origin of fs may serve during run r
ScriptAt(fs, r) == IF r <= Len(fs.script) THEN fs.script[r] ELSE fs.script[Len(fs.script)]

\* the channel an ingestion worker ranges over
ChanOf(w) == IF w \in ExecWorkers THEN "exec" ELSE whost[w]

NoLoc == [fs |-> 0, f |-> NoFeed, seenFeed |-> FALSE, idx |-> 0]
NoItem == [fs |-> 0, f |-> NoFeed, i |-> Item(0, 0)]
NoEvent == [fi |-> NoItem, from |-> <<>>]

\* the goroutines and identities of the interleavings of store.set
SetCallers == {"d1", "w1"}
SetKeys == {<< 1 >>, << 1, 1 >>, << 1, 3 >>}
\* no store.set is in progress; marked: the identities whose store.set has
\* returned, before: the identities store.has found at the start
NoSetCalls == [pc |-> [c \in SetCallers |-> "idle"], key |-> [c \in SetCallers |-> << >>],
               marked |-> {}, before |-> {}]

(* --------------------------- initial state ---------------------------- *)
\* the state of a run before run() starts the workers
Fresh ==
    /\ cpc = "startEmailers"
    /\ ci = 1
    /\ domains = {}
    /\ feedCh = [c \in {"exec"} \cup Hosts |-> <<>>]
    /\ itemChan = <<>>
    /\ closed = {}
    /\ wpc = [w \in Workers |-> "none"]
    /\ whost = [w \in DomainWorkers |-> NoHost]
    /\ loc = [w \in Ingesters |-> NoLoc]
    /\ ev = [d \in Emailers |-> NoEvent]
    /\ buf = [d \in Emailers |-> <<>>]
    /\ sent = [w \in Ingesters |-> <<>>]
    /\ setFailed = [w \in Ingesters |-> {}]
    /\ hasFailed = [w \in Ingesters |-> FALSE]
    /\ snap = [w \in Ingesters |-> {}]
    /\ emitted = <<>>
    /\ taken = 0
    /\ delivered = {}
    /\ lastFail = [d \in Emailers |-> <<>>]
    /\ markFailed = {}
    /\ lastFetch = [h \in Hosts |-> "none"]
    /\ fetched = [i \in 1..Len(cfg) |-> <<>>]
    /\ elapsed = [h \in Hosts |-> 0]
    /\ panicked = FALSE

\* the same state, as the next state of a step that starts the program again
Restart ==
    /\ cpc' = "startEmailers"
    /\ ci' = 1
    /\ domains' = {}
    /\ feedCh' = [c \in {"exec"} \cup Hosts |-> <<>>]
    /\ itemChan' = <<>>
    /\ closed' = {}
    /\ wpc' = [w \in Workers |-> "none"]
    /\ whost' = [w \in DomainWorkers |-> NoHost]
    /\ loc' = [w \in Ingesters |-> NoLoc]
    /\ ev' = [d \in Emailers |-> NoEvent]
    /\ buf' = [d \in Emailers |-> <<>>]
    /\ sent' = [w \in Ingesters |-> <<>>]
    /\ setFailed' = [w \in Ingesters |-> {}]
    /\ hasFailed' = [w \in Ingesters |-> FALSE]
    /\ snap' = [w \in Ingesters |-> {}]
    /\ emitted' = <<>>
    /\ taken' = 0
    /\ delivered' = {}
    /\ lastFail' = [d \in Emailers |-> <<>>]
    /\ markFailed' = {}
    /\ lastFetch' = [h \in Hosts |-> "none"]
    /\ fetched' = [i \in 1..Len(cfg) |-> <<>>]
    /\ elapsed' = [h \in Hosts |-> 0]
    /\ panicked' = FALSE

Init ==
    /\ cfg \in Configs
    /\ run = 1
    /\ files = {}
    /\ written = {}
    /\ dirs = {}
    /\ faults = 0
    /\ storeErr = FALSE
    /\ pendingAtKill = {}
    /\ newAtKill = {}
    /\ setCalls = NoSetCalls
    /\ prev = [i \in 1..Len(cfg) |-> NoFeed]
    /\ Fresh

storeVars == << files, written, dirs >>
histVars == << sent, setFailed, hasFailed, snap, emitted, taken, delivered, lastFail,
              markFailed, prev >>
timeVars == << elapsed, lastFetch, fetched >>
workerVars == << wpc, whost, loc, ev, buf >>
chanVars == << feedCh, itemChan, closed >>

(* ---------------------------- coordinator ----------------------------- *)
\* run: emailerWG.Add(config.SMTP.Jobs); go sendEmails(...) for each
StartEmailers ==
    /\ cpc = "startEmailers"
    /\ cpc' = "startExec"
    /\ wpc' = [w \in Workers |-> IF w \in Emailers THEN "recv" ELSE wpc[w]]
    /\ UNCHANGED << cfg, run, pendingAtKill, newAtKill, setCalls, storeErr, storeVars, faults, ci, domains, chanVars, whost, loc, ev, buf,
                    histVars, timeVars, panicked >>

\* run: procWG.Add(config.Exec.Jobs); go processExecFeeds(...) for each
StartExec ==
    /\ cpc = "startExec"
    /\ cpc' = "feeds"
    /\ wpc' = [w \in Workers |-> IF w \in ExecPool THEN "recv" ELSE wpc[w]]
    /\ UNCHANGED << cfg, run, pendingAtKill, newAtKill, setCalls, storeErr, storeVars, faults, ci, domains, chanVars, whost, loc, ev, buf,
                    histVars, timeVars, panicked >>

\* the lookup never finds the host: a worker is started for every FeedSpec
InDomains_Never(host) == FALSE

\* run: "urlFeedChan, ok := domains[f.parsedURL.Host]"
InDomains(host) == host \in domains

\* run: one iteration of "for _, f := range config.Feeds"
HandOff ==
    /\ cpc = "feeds"
    /\ ci <= Len(cfg)
    /\ LET f == cfg[ci]
           host == f.url.host
       IN  IF ~f.url.ok
           THEN UNCHANGED << feedCh, domains, wpc, whost >>
           ELSE IF f.exec
           THEN /\ Len(feedCh["exec"]) < ChanCap
                /\ feedCh' = [feedCh EXCEPT !["exec"] = Append(@, ci)]
                /\ UNCHANGED << domains, wpc, whost >>
           ELSE /\ Len(feedCh[host]) < ChanCap
                /\ feedCh' = [feedCh EXCEPT ![host] = Append(@, ci)]
                /\ domains' = domains \cup {host}
                /\ IF InDomains(host)
                   THEN UNCHANGED << wpc, whost >>
                   ELSE /\ wpc' = [wpc EXCEPT ![WorkerAt(ci)] = "recv"]
                        /\ whost' = [whost EXCEPT ![WorkerAt(ci)] = host]
    /\ ci' = ci + 1
    /\ UNCHANGED << cfg, run, pendingAtKill, newAtKill, setCalls, storeErr, storeVars, faults, cpc, itemChan, closed, loc, ev, buf,
                    histVars, timeVars, panicked >>

\* the channels of the domains are left open
FeedChans_ExecOnly == {"exec"}

\* run: the channels closed after the hand-off: execFeedCh and every domain's
FeedChans == {"exec"} \cup domains

\* run: close(execFeedCh); for _, d := range domains { close(d) }
CloseFeeds ==
    /\ cpc = "feeds"
    /\ ci > Len(cfg)
    /\ closed' = closed \cup FeedChans
    /\ cpc' = "waitProc"
    /\ UNCHANGED << cfg, run, pendingAtKill, newAtKill, setCalls, storeErr, storeVars, faults, ci, domains, feedCh, itemChan,
                    workerVars, histVars, timeVars, panicked >>

\* itemChan is closed without waiting for the ingestion workers
ProcWGDone_NoWait == TRUE

\* procWG.Wait() returns: every exec worker and every domain worker called done
ProcWGDone == \A w \in Ingesters : wpc[w] \in {"none", "done"}

\* run: procWG.Wait(); close(itemChan)
CloseItems ==
    /\ cpc = "waitProc"
    /\ ProcWGDone
    /\ closed' = closed \cup {"item"}
    /\ cpc' = "waitEmail"
    /\ UNCHANGED << cfg, run, pendingAtKill, newAtKill, setCalls, storeErr, storeVars, faults, ci, domains, feedCh, itemChan,
                    workerVars, histVars, timeVars, panicked >>

\* emailerWG.Wait() returns: every emailer called done
EmailerWGDone == \A d \in Emailers : wpc[d] = "done"

\* run: emailerWG.Wait(); return nil
Return ==
    /\ cpc = "waitEmail"
    /\ EmailerWGDone
    /\ cpc' = "returned"
    /\ UNCHANGED << cfg, run, pendingAtKill, newAtKill, setCalls, storeErr, storeVars, faults, ci, domains, chanVars,
                    workerVars, histVars, timeVars, panicked >>

(* ------------------------- ingestion workers -------------------------- *)
\* the receive takes the youngest element of the channel
ChanHead_Last(q) == q[Len(q)]

\* a receive takes the oldest element of the channel
ChanHead(q) == Head(q)

\* "for fs := range feedChan": receive the next FeedSpec, or leave the loop
\* (and run the deferred done()) once the channel is closed and drained
Recv(w) ==
    /\ wpc[w] = "recv"
    /\ IF feedCh[ChanOf(w)] # <<>>
       THEN /\ loc' = [loc EXCEPT ![w] = [NoLoc EXCEPT !.fs = ChanHead(feedCh[ChanOf(w)])]]
            /\ feedCh' = [feedCh EXCEPT ![ChanOf(w)] = Tail(@)]
            /\ wpc' = [wpc EXCEPT ![w] = IF w \in ExecWorkers THEN "exec" ELSE "sleep"]
       ELSE /\ ChanOf(w) \in closed
            /\ wpc' = [wpc EXCEPT ![w] = "done"]
            /\ UNCHANGED << loc, feedCh >>
    /\ UNCHANGED << cfg, run, pendingAtKill, newAtKill, setCalls, storeErr, storeVars, faults, cpc, ci, domains, itemChan, closed,
                    whost, ev, buf, histVars, timeVars, panicked >>

\* a sleep shorter than the delay
SleepFor_Short == sameDomainRequestDelay - 1

\* what time.Sleep(sameDomainRequestDelay) guarantees to have passed when it returns
SleepFor == sameDomainRequestDelay

\* processDomainFeeds: time.Sleep(sameDomainRequestDelay) returns and
\* parser.ParseURLWithContext is called: the fetch is in flight
Sleep(h) ==
    /\ wpc[h] = "sleep"
    /\ wpc' = [wpc EXCEPT ![h] = "fetching"]
    /\ elapsed' = [elapsed EXCEPT ![whost[h]] = @ + SleepFor]
    /\ UNCHANGED << cfg, run, pendingAtKill, newAtKill, setCalls, storeErr, storeVars, faults, cpc, ci, domains, chanVars, whost, loc,
                    ev, buf, histVars, lastFetch, fetched, panicked >>

\* the worker returns when a fetch fails
FetchNext_Exit(ok) == IF ok THEN "pf_feed" ELSE "done"

\* processDomainFeeds: after ParseURLWithContext: processFeeds, or "continue"
FetchNext(ok) == IF ok THEN "pf_feed" ELSE "recv"

\* processDomainFeeds: ParseURLWithContext returns an error (log, continue)
\* or a feed (processFeeds is called)
FetchEnd(h) ==
    /\ wpc[h] = "fetching"
    /\ \/ /\ faults < MaxFaults
          /\ faults' = faults + 1
          /\ wpc' = [wpc EXCEPT ![h] = FetchNext(FALSE)]
          /\ loc' = [loc EXCEPT ![h] = NoLoc]
          /\ lastFetch' = [lastFetch EXCEPT ![whost[h]] = "err"]
          /\ fetched' = [fetched EXCEPT ![loc[h].fs] = Append(@, "err")]
       \/ \E f \in ScriptAt(cfg[loc[h].fs], run) :
          /\ wpc' = [wpc EXCEPT ![h] = FetchNext(TRUE)]
          /\ loc' = [loc EXCEPT ![h].f = f]
          /\ lastFetch' = [lastFetch EXCEPT ![whost[h]] = "ok"]
          /\ fetched' = [fetched EXCEPT ![loc[h].fs] = Append(@, "ok")]
          /\ UNCHANGED faults
    /\ elapsed' = [elapsed EXCEPT ![whost[h]] = 0]
    /\ UNCHANGED << cfg, run, pendingAtKill, newAtKill, setCalls, storeErr, storeVars, cpc, ci, domains, chanVars, whost,
                    ev, buf, histVars, panicked >>

\* the command is run again when it failed
ExecNext_Retry(ok) == IF ok THEN "pf_feed" ELSE "exec"

\* processExecFeeds: after Output() and Parse: processFeeds, or "continue"
ExecNext(ok) == IF ok THEN "pf_feed" ELSE "recv"

\* processExecFeeds: exec.Command(...).Output() and parser.Parse: an error of
\* either (log, continue) or a feed (processFeeds is called)
ExecRun(x) ==
    /\ wpc[x] = "exec"
    /\ \/ /\ faults < MaxFaults
          /\ faults' = faults + 1
          /\ wpc' = [wpc EXCEPT ![x] = ExecNext(FALSE)]
          /\ loc' = [loc EXCEPT ![x] = IF ExecNext(FALSE) = "exec" THEN @ ELSE NoLoc]
          /\ fetched' = [fetched EXCEPT ![loc[x].fs] = Append(@, "err")]
       \/ \E f \in ScriptAt(cfg[loc[x].fs], run) :
          /\ wpc' = [wpc EXCEPT ![x] = ExecNext(TRUE)]
          /\ loc' = [loc EXCEPT ![x].f = f]
          /\ fetched' = [fetched EXCEPT ![loc[x].fs] = Append(@, "ok")]
          /\ UNCHANGED faults
    /\ UNCHANGED << cfg, run, pendingAtKill, newAtKill, setCalls, storeErr, storeVars, cpc, ci, domains, chanVars, whost,
                    ev, buf, histVars, elapsed, lastFetch, panicked >>

\* the feedItem processFeeds builds for the item at the worker's position
CurItem(w) == [fs |-> loc[w].fs, f |-> loc[w].f, i |-> loc[w].f.items[loc[w].idx]]
CurFeed(w) == [fs |-> loc[w].fs, f |-> loc[w].f, i |-> Item(0, 0)]

\* the loop over the items is left after the first item
LoopDone_Early(f, idx) == idx > 1 \/ idx > Len(f.items)

\* processFeeds: "for _, i := range f.Items" has passed every item
LoopDone(f, idx) == idx > Len(f.items)

\* the loop over the n items is left when calcItemUID fails
OnUIDError_Break(idx, n) == n + 1

\* processFeeds: calcItemUID fails (log, "continue"): on to the next item
OnUIDError(idx, n) == idx + 1

\* the items of a feed that was not found are handled like those of one that was
FirstRun_Never(seenFeed) == FALSE

\* processFeeds: "if seenFeed { ... } else { store.set(itemUID) }"
FirstRun(seenFeed) == ~seenFeed

\* every feed is taken for an established one
SeenFeed_Always(uid, out) == TRUE

\* processFeeds: seenFeed := store.has(feedUID)
SeenFeed(uid, out) == has(uid, out)

\* processFeeds: calcFeedUID, then seenFeed := store.has(feedUID)
PFStart(w) ==
    /\ wpc[w] = "pf_feed"
    /\ LET u == calcFeedUID(CurFeed(w))
       IN  IF u.err
           THEN /\ wpc' = [wpc EXCEPT ![w] = "recv"]
                /\ loc' = [loc EXCEPT ![w] = NoLoc]
                /\ UNCHANGED << faults, storeErr, sent, setFailed, hasFailed, snap >>
           ELSE \E out \in HasOutcomes :
                /\ MayFail(out)
                /\ faults' = Count(out)
                /\ storeErr' = (storeErr \/ out # "ok")
                /\ loc' = [loc EXCEPT ![w].seenFeed = SeenFeed(u.uid, out), ![w].idx = 1]
                /\ wpc' = [wpc EXCEPT ![w] = "pf_item"]
                /\ sent' = [sent EXCEPT ![w] = <<>>]
                /\ setFailed' = [setFailed EXCEPT ![w] = {}]
                /\ hasFailed' = [hasFailed EXCEPT ![w] = (out # "ok")]
                /\ snap' = [snap EXCEPT ![w] = files]
    /\ UNCHANGED << cfg, run, pendingAtKill, newAtKill, setCalls, storeVars, cpc, ci, domains, chanVars, whost, ev, buf,
                    emitted, taken, delivered, lastFail, markFailed, prev, timeVars, panicked >>

\* the store is not consulted: every item is sent
NeedsSend_Always(uid, out) == TRUE

\* the store is not consulted: no item is sent
NeedsSend_Never(uid, out) == FALSE

\* processFeeds, seenFeed true: the item is skipped when store.has finds it
NeedsSend(uid, out) == ~has(uid, out)

\* processFeeds: one iteration of "for _, i := range f.Items" up to the
\* channel send: calcItemUID, then store.has (seenFeed) or store.set
PFItem(w) ==
    /\ wpc[w] = "pf_item"
    /\ ~LoopDone(loc[w].f, loc[w].idx)
    /\ LET u == calcItemUID(CurItem(w))
       IN  IF u.err
           THEN /\ loc' = [loc EXCEPT ![w].idx = OnUIDError(@, Len(loc[w].f.items))]
                /\ UNCHANGED << wpc, storeVars, faults, storeErr, setFailed, hasFailed >>
           ELSE IF ~FirstRun(loc[w].seenFeed)
           THEN \E out \in HasOutcomes :
                /\ MayFail(out)
                /\ faults' = Count(out)
                /\ storeErr' = (storeErr \/ out # "ok")
                /\ hasFailed' = [hasFailed EXCEPT ![w] = @ \/ out # "ok"]
                /\ IF NeedsSend(u.uid, out)
                   THEN /\ wpc' = [wpc EXCEPT ![w] = "pf_send"]
                        /\ UNCHANGED loc
                   ELSE /\ loc' = [loc EXCEPT ![w].idx = @ + 1]
                        /\ UNCHANGED wpc
                /\ UNCHANGED << storeVars, setFailed >>
           ELSE \E out \in SetOutcomes :
                /\ MayFail(out)
                /\ faults' = Count(out)
                /\ storeErr' = (storeErr \/ out # "ok")
                /\ files' = setFiles(u.uid, out)
                /\ written' = setWritten(u.uid, out)
                /\ dirs' = setDirs(u.uid, out)
                /\ setFailed' = [setFailed EXCEPT ![w] = IF out = "ok" THEN @ ELSE @ \cup {u.uid}]
                /\ loc' = [loc EXCEPT ![w].idx = @ + 1]
                /\ UNCHANGED << wpc, hasFailed >>
    /\ UNCHANGED << cfg, run, pendingAtKill, newAtKill, setCalls, cpc, ci, domains, chanVars, whost, ev, buf, sent, snap,
                    emitted, taken, delivered, lastFail, markFailed, prev, timeVars, panicked >>

\* processFeeds: "itemChan <- fi"; blocks while the channel is full, panics
\* when the channel is closed
PFSend(w) ==
    /\ wpc[w] = "pf_send"
    /\ IF "item" \in closed
       THEN /\ panicked' = TRUE
            /\ wpc' = [wpc EXCEPT ![w] = "done"]
            /\ UNCHANGED << itemChan, loc, sent, emitted >>
       ELSE /\ Len(itemChan) < ChanCap
            /\ itemChan' = Append(itemChan, CurItem(w))
            /\ sent' = [sent EXCEPT ![w] = Append(@, loc[w].idx)]
            /\ emitted' = Append(emitted, calcItemUID(CurItem(w)).uid)
            /\ loc' = [loc EXCEPT ![w].idx = @ + 1]
            /\ wpc' = [wpc EXCEPT ![w] = "pf_item"]
            /\ UNCHANGED panicked
    /\ UNCHANGED << cfg, run, pendingAtKill, newAtKill, setCalls, storeErr, storeVars, faults, cpc, ci, domains, feedCh, closed,
                    whost, ev, buf, setFailed, hasFailed, snap, taken, delivered, lastFail,
                    markFailed, prev, timeVars >>

\* processFeeds: after the loop, store.set(feedUID); return nil
PFMark(w) ==
    /\ wpc[w] = "pf_item"
    /\ LoopDone(loc[w].f, loc[w].idx)
    /\ \E out \in SetOutcomes :
       /\ MayFail(out)
       /\ faults' = Count(out)
       /\ storeErr' = (storeErr \/ out # "ok")
       /\ files' = setFiles(calcFeedUID(CurFeed(w)).uid, out)
       /\ written' = setWritten(calcFeedUID(CurFeed(w)).uid, out)
       /\ dirs' = setDirs(calcFeedUID(CurFeed(w)).uid, out)
    /\ wpc' = [wpc EXCEPT ![w] = "recv"]
    /\ loc' = [loc EXCEPT ![w] = NoLoc]
    /\ sent' = [sent EXCEPT ![w] = <<>>]
    /\ setFailed' = [setFailed EXCEPT ![w] = {}]
    /\ hasFailed' = [hasFailed EXCEPT ![w] = FALSE]
    /\ snap' = [snap EXCEPT ![w] = {}]
    /\ prev' = [prev EXCEPT ![loc[w].fs] = loc[w].f]
    /\ UNCHANGED << cfg, run, pendingAtKill, newAtKill, setCalls, cpc, ci, domains, chanVars, whost, ev, buf,
                    emitted, taken, delivered, lastFail, markFailed, timeVars, panicked >>

(* ------------------------------ emailers ------------------------------ *)
\* sendEmails: what the three Execute(&buf, fi) calls leave in buf.  A
\* template that fails leaves its partial output behind ("continue" skips
\* buf.Reset()); the sender template writes after whatever buf held.
BufAfter(b, fi) ==
    IF fi.i.tpl = "ok" THEN <<>>
    ELSE IF fi.i.tpl = "sender" THEN Append(b, "sender")
    ELSE << fi.i.tpl >>

\* sendEmails: sender := string(buf.Bytes()) after the sender template ran
Sender(b, fi) == Append(b, "From")

\* the emailer returns as soon as it finds itemChan empty
ItemsEnd_WhenEmpty == TRUE

\* sendEmails: "for fi := range c" ends when c is closed (and drained)
ItemsEnd == "item" \in closed

\* sendEmails: "for fi := range c" and the rendering of sender, subject and
\* content; leaves the loop once itemChan is closed and drained
ERecv(d) ==
    /\ wpc[d] = "recv"
    /\ IF itemChan # <<>>
       THEN /\ itemChan' = Tail(itemChan)
            /\ taken' = taken + 1
            /\ buf' = [buf EXCEPT ![d] = BufAfter(@, Head(itemChan))]
            /\ IF Head(itemChan).i.tpl = "ok"
               THEN /\ ev' = [ev EXCEPT ![d] = [fi |-> Head(itemChan),
                                                 from |-> Sender(buf[d], Head(itemChan))]]
                    /\ wpc' = [wpc EXCEPT ![d] = "send"]
               ELSE UNCHANGED << ev, wpc >>
       ELSE /\ ItemsEnd
            /\ wpc' = [wpc EXCEPT ![d] = "done"]
            /\ UNCHANGED << itemChan, taken, buf, ev >>
    /\ UNCHANGED << cfg, run, pendingAtKill, newAtKill, setCalls, storeErr, storeVars, faults, cpc, ci, domains, feedCh, closed, whost, loc,
                    sent, setFailed, hasFailed, snap, emitted, delivered, lastFail,
                    markFailed, prev, timeVars, panicked >>

\* sendEmails: after sendEmail returned nil the emailer goes on to store.set(uid)
AfterDelivery == "mark"

\* the "continue" after a failed sendEmail is missing
AfterFailure_Mark == "mark"

\* sendEmails: after sendEmail returned an error: log, continue
AfterFailure == "recv"

\* sendEmails: sendEmail(sender, msg) returns an error (log, continue) or nil
ESend(d) ==
    /\ wpc[d] = "send"
    /\ \/ /\ faults < MaxFaults
          /\ faults' = faults + 1
          /\ wpc' = [wpc EXCEPT ![d] = AfterFailure]
          /\ lastFail' = [lastFail EXCEPT ![d] = calcItemUID(ev[d].fi).uid]
          /\ UNCHANGED << delivered, ev >>
       \/ /\ wpc' = [wpc EXCEPT ![d] = AfterDelivery]
          /\ delivered' = delivered \cup {calcItemUID(ev[d].fi).uid}
          /\ UNCHANGED << faults, lastFail, ev >>
    /\ UNCHANGED << cfg, run, pendingAtKill, newAtKill, setCalls, storeErr, storeVars, cpc, ci, domains, chanVars, whost, loc, buf,
                    sent, setFailed, hasFailed, snap, emitted, taken, markFailed, prev,
                    timeVars, panicked >>

\* sendEmails: store.set(uid), uid being calcItemUID(fi)
EMark(d) ==
    /\ wpc[d] = "mark"
    /\ \E out \in SetOutcomes :
       /\ MayFail(out)
       /\ faults' = Count(out)
       /\ storeErr' = (storeErr \/ out # "ok")
       /\ files' = setFiles(calcItemUID(ev[d].fi).uid, out)
       /\ written' = setWritten(calcItemUID(ev[d].fi).uid, out)
       /\ dirs' = setDirs(calcItemUID(ev[d].fi).uid, out)
       /\ markFailed' = IF out = "ok" THEN markFailed
                        ELSE markFailed \cup {calcItemUID(ev[d].fi).uid}
    /\ wpc' = [wpc EXCEPT ![d] = "recv"]
    /\ UNCHANGED << cfg, run, pendingAtKill, newAtKill, setCalls, cpc, ci, domains, chanVars, whost, loc, ev, buf,
                    sent, setFailed, hasFailed, snap, emitted, taken, delivered, lastFail,
                    prev, timeVars, panicked >>

(* ------------------------- runs of the program ------------------------ *)
\* the program is started again after run() returned; the storage is all
\* that is left of the earlier run
NextRun ==
    /\ cpc = "returned"
    /\ run < MaxRuns
    /\ run' = run + 1
    /\ Restart
    /\ pendingAtKill' = {}
    /\ newAtKill' = {}
    /\ UNCHANGED << cfg, storeVars, storeErr, faults, prev, setCalls >>

\* processFeeds is in the item loop of a feed whose identity is not in the
\* store and was not found by store.has
InFirstRun(w) ==
    /\ wpc[w] = "pf_item"
    /\ ~loc[w].seenFeed
    /\ keyPath(calcFeedUID(CurFeed(w)).uid) \notin files

\* the process is killed at any point of a run and started again later
Kill ==
    /\ cpc # "returned"
    /\ run < MaxRuns
    /\ faults < MaxFaults
    /\ faults' = faults + 1
    /\ run' = run + 1
    /\ Restart
    /\ pendingAtKill' = {emitted[j] : j \in {i \in 1..Len(emitted) : keyPath(emitted[i]) \notin files}}
    /\ newAtKill' = {[fs |-> loc[w].fs, f |-> loc[w].f] :
                        w \in {v \in Ingesters : InFirstRun(v)}}
    /\ UNCHANGED << cfg, storeVars, storeErr, prev, setCalls >>

(* --------------------------- specification ---------------------------- *)
Next ==
    \/ StartEmailers
    \/ StartExec
    \/ HandOff
    \/ CloseFeeds
    \/ CloseItems
    \/ Return
    \/ \E w \in Ingesters : Recv(w)
    \/ \E h \in DomainWorkers : Sleep(h)
    \/ \E h \in DomainWorkers : FetchEnd(h)
    \/ \E x \in ExecWorkers : ExecRun(x)
    \/ \E w \in Ingesters : PFStart(w)
    \/ \E w \in Ingesters : PFItem(w)
    \/ \E w \in Ingesters : PFSend(w)
    \/ \E w \in Ingesters : PFMark(w)
    \/ \E d \in Emailers : ERecv(d)
    \/ \E d \in Emailers : ESend(d)
    \/ \E d \in Emailers : EMark(d)
    \/ NextRun
    \/ Kill

Spec == Init /\ [][Next]_vars

\* the steps of the program itself: the coordinator and the goroutines
ProgramStep ==
    \/ StartEmailers
    \/ StartExec
    \/ HandOff
    \/ CloseFeeds
    \/ CloseItems
    \/ Return
    \/ \E w \in Ingesters : Recv(w) \/ PFStart(w) \/ PFItem(w) \/ PFSend(w) \/ PFMark(w)
    \/ \E h \in DomainWorkers : Sleep(h) \/ FetchEnd(h)
    \/ \E x \in ExecWorkers : ExecRun(x)
    \/ \E d \in Emailers : ERecv(d) \/ ESend(d) \/ EMark(d)

\* the Go scheduler runs a goroutine that can take a step, and every sleep,
\* fetch, command, delivery and storage call returns
FairSpec == Spec /\ WF_vars(ProgramStep)

(* ------------------------------ properties ---------------------------- *)
\* the worker is inside the item loop of processFeeds
InLoop(w) == wpc[w] \in {"pf_item", "pf_send"}
\* the worker has left the item loop and is about to mark the feed identity
LoopEnd(w) == wpc[w] = "pf_item" /\ loc[w].idx > Len(loc[w].f.items)
ItemAt(w, k) == [fs |-> loc[w].fs, f |-> loc[w].f, i |-> loc[w].f.items[k]]
Renders(w, k) == ~calcItemUID(ItemAt(w, k)).err
ItemUID(w, k) == calcItemUID(ItemAt(w, k)).uid
ItemPath(w, k) == keyPath(ItemUID(w, k))
FeedPath(w) == keyPath(calcFeedUID(CurFeed(w)).uid)
Positions(w) == 1..Len(loc[w].f.items)
\* the positions of the feed whose identity was not in the store when the call began
NewAtStart(w) == {k \in Positions(w) : ItemPath(w, k) \notin snap[w]}
\* the feed identity was in the store when the call began, and every store.has answered
Established(w) == FeedPath(w) \in snap[w] /\ ~hasFailed[w]
AllRender(w) == \A k \in Positions(w) : Renders(w, k)
EventUID(d) == calcItemUID(ev[d].fi).uid

DeliveredMarked ==
    \A u \in delivered :
        \/ keyPath(u) \in files
        \/ u \in markFailed
        \/ \E d \in Emailers : wpc[d] = "mark" /\ EventUID(d) = u

DeliveryFails(d) ==
    /\ wpc[d] = "send"
    /\ wpc'[d] # "send"
    /\ faults' = faults + 1
    /\ run' = run

AbsentIsSent(w) ==
    \A k \in Positions(w) :
        (k < loc[w].idx /\ Renders(w, k)) => (ItemPath(w, k) \in files \/ \E j \in 1..Len(sent[w]) : sent[w][j] = k)

StepOf(w) == wpc'[w] # wpc[w] \/ loc'[w] # loc[w]

\* the step is taken by emailer d
EStepOf(d) == wpc'[d] # wpc[d] \/ buf'[d] # buf[d] \/ ev'[d] # ev[d]

\* the step is an emailer's store.set after a delivery that succeeded
MarkAfterDelivery(d) ==
    /\ wpc[d] = "mark"
    /\ wpc'[d] = "recv"
    /\ EventUID(d) \in delivered
    /\ files' \subseteq files \cup {keyPath(EventUID(d))}

\* the step is processFeeds writing an item identity of a feed that was not
\* found in the store, or the feed identity after the loop
MarkByIngestion(w) ==
    /\ wpc[w] = "pf_item"
    /\ StepOf(w)
    /\ IF LoopEnd(w)
       THEN files' \subseteq files \cup {FeedPath(w)}
       ELSE ~loc[w].seenFeed /\ files' \subseteq files \cup {ItemPath(w, loc[w].idx)}

\* C5: a step that adds a file to the store is either an emailer's store.set
\* for the event whose delivery just succeeded, or processFeeds marking an
\* item of a feed that was not found (seenFeed false) or the feed identity;
\* no step of processFeeds on a feed with seenFeed true inside the item loop,
\* and no step of an emailer that is receiving, rendering or delivering,
\* changes the store.
C5_MarkOnlyAfterDelivery ==
    [][/\ files' # files =>
            \/ \E d \in Emailers : MarkAfterDelivery(d)
            \/ \E w \in Ingesters : MarkByIngestion(w)
       /\ \A w \in Ingesters :
            (StepOf(w) /\ run' = run /\ InLoop(w) /\ ~LoopEnd(w) /\ loc[w].seenFeed) =>
                files' = files
       /\ \A d \in Emailers :
            (EStepOf(d) /\ run' = run /\ wpc[d] \in {"recv", "send"}) => files' = files]_vars

\* an emailer has delivered the event of an ingestion worker that is still in
\* the loop of an established feed, and has written the identity, which was
\* not in the store when the call began
C5_Witness ==
    \E d \in Emailers, w \in Ingesters :
        /\ wpc[d] = "recv"
        /\ ev[d] # NoEvent
        /\ EventUID(d) \in delivered
        /\ keyPath(EventUID(d)) \in files
        /\ InLoop(w)
        /\ loc[w].seenFeed
        /\ keyPath(EventUID(d)) \notin snap[w]
        /\ \E k \in Positions(w) : sent[w] = << k >> /\ ItemUID(w, k) = EventUID(d)

\* C6: with the FeedSpec A whose feed is [I1, I2] in runs 1 and 2 and
\* [I1, I2, I3] in run 3, an empty store at first and no failure of any kind:
\* when run 1 has returned nothing was sent and I1, I2 are in the store; when
\* run 2 has returned nothing was sent; when run 3 has returned exactly one
\* event was sent and delivered, the one of I3.
C6_ThreeRuns ==
    (cfg = CfgGrow /\ faults = 0 /\ cpc = "returned") =>
        /\ run = 1 => /\ emitted = <<>>
                      /\ {keyPath(<<1, 1>>), keyPath(<<1, 2>>)} \subseteq files
        /\ run = 2 => emitted = <<>>
        /\ run = 3 => /\ emitted = << <<1, 3>> >>
                      /\ delivered = { <<1, 3>> }
                      /\ keyPath(<<1, 3>>) \in files

\* the third run of the scenario has returned after sending the event of I3
C6_Witness ==
    /\ cfg = CfgGrow
    /\ faults = 0
    /\ cpc = "returned"
    /\ run = 3
    /\ emitted = << <<1, 3>> >>
    /\ taken = 1

\* C7: whenever a fetch is in flight on a host (parsedURL.Host), at least
\* sameDomainRequestDelay has passed since the end of the last fetch on that
\* host, whether that fetch returned a feed or an error.
C7_PolitenessDelay ==
    \A w \in DomainWorkers :
        wpc[w] = "fetching" => elapsed[whost[w]] >= sameDomainRequestDelay

\* the second FeedSpec of a host is being fetched after the first fetch on
\* that host failed
C7_Witness ==
    \E w \in DomainWorkers :
        /\ wpc[w] = "fetching"
        /\ lastFetch[whost[w]] = "err"
        /\ elapsed[whost[w]] = sameDomainRequestDelay

\* the hosts of the url FeedSpecs the coordinator has handed off so far
HandedOff == {cfg[i].url.host : i \in {j \in 1..(ci - 1) : cfg[j].url.ok /\ ~cfg[j].exec}}

\* C8: the domains map holds exactly the hosts (parsedURL.Host) of the url
\* FeedSpecs handed off so far, each of them has exactly one worker and the
\* others have none and an empty channel, at most one fetch is in flight on
\* a host (two hosts can have a fetch in flight together: C8_Witness).
C8_OneWorkerPerHost ==
    /\ cpc \in {"feeds", "waitProc", "waitEmail", "returned"} => domains = HandedOff
    /\ \A h \in Hosts :
        /\ Cardinality({w \in DomainWorkers : whost[w] = h}) = (IF h \in domains THEN 1 ELSE 0)
        /\ h \notin domains => feedCh[h] = <<>>
        /\ Cardinality({w \in DomainWorkers : whost[w] = h /\ wpc[w] = "fetching"}) <= 1

\* fetches are in flight on two hosts at once, one of which has two FeedSpecs
C8_Witness ==
    \E v, w \in DomainWorkers :
        /\ whost[v] # whost[w]
        /\ wpc[v] = "fetching"
        /\ wpc[w] = "fetching"
        /\ Cardinality(domains) = 2

\* C9: no send on the closed itemChan ever happens; itemChan is closed only
\* when every ingestion worker that was started has exited; when run has
\* returned itemChan is empty and the emailers have taken every event sent.
C9_ShutdownOrder ==
    /\ ~panicked
    /\ "item" \in closed => \A w \in Ingesters : wpc[w] \in {"none", "done"}
    /\ cpc = "returned" => (itemChan = <<>> /\ taken = Len(emitted))

\* a run in which two events were sent has returned, all workers having exited
C9_Witness ==
    /\ cpc = "returned"
    /\ Len(emitted) >= 2
    /\ taken = Len(emitted)
    /\ \E w \in Ingesters : wpc[w] = "done"

\* C10 in the wording of the specification: no item identity is sent on itemChan twice within one run.
C10_Original ==
    \A i, j \in 1..Len(emitted) : i # j => emitted[i] # emitted[j]

\* C10 as the program has it: within one call of processFeeds every item (position) of the
\* feed is sent at most once, in feed order, and an item of an established
\* feed whose identity store.has did not find is sent; two items with one
\* identity, or the same feed from two FeedSpecs, are each sent.
C10_OncePerItem ==
    \A w \in Ingesters :
        InLoop(w) =>
            /\ \A j \in 1..Len(sent[w]) : sent[w][j] < loc[w].idx
            /\ \A i, j \in 1..Len(sent[w]) : i < j => sent[w][i] < sent[w][j]
            /\ (loc[w].seenFeed /\ ~hasFailed[w]) => AbsentIsSent(w)

\* two items of one feed with the same identity have both been sent
C10_Witness ==
    \E w \in Ingesters :
        /\ InLoop(w)
        /\ Len(sent[w]) = 2
        /\ ItemPath(w, sent[w][1]) = ItemPath(w, sent[w][2])
        /\ Len(emitted) = 2
        /\ emitted[1] = emitted[2]

\* nothing of config.Feeds[i] is in the hands of a worker, queued on itemChan
\* or held by an emailer
Untouched(i) ==
    /\ \A w \in Ingesters : loc[w].fs # i
    /\ \A j \in 1..Len(itemChan) : itemChan[j].fs # i
    /\ \A d \in Emailers : ev[d].fi.fs # i

\* C11: the command of an exec FeedSpec is run at most once per run; once it
\* has failed (non-zero exit, or output that does not parse) no worker holds
\* the FeedSpec, so processFeeds is never called for it (no store.set, no
\* send on itemChan), and no feedItem of it is queued or held by an emailer;
\* when run has returned every FeedSpec whose URL parses has been fetched or
\* run exactly once.
C11_ExecFailure ==
    /\ \A i \in 1..Len(cfg) :
         cfg[i].exec =>
            /\ Len(fetched[i]) <= 1
            /\ fetched[i] = << "err" >> => Untouched(i)
    /\ cpc = "returned" =>
         \A i \in 1..Len(cfg) : cfg[i].url.ok => Len(fetched[i]) = 1

\* the command of X failed, the run has returned and the three url FeedSpecs
\* were fetched
C11_Witness ==
    /\ cfg = CfgHosts
    /\ cpc = "returned"
    /\ fetched[5] = << "err" >>
    /\ \A i \in {1, 3, 4} : fetched[i] = << "ok" >>
    /\ itemChan = <<>>

\* the url FeedSpecs of host h
SourcesOf(h) == {i \in 1..Len(cfg) : cfg[i].url.ok /\ ~cfg[i].exec /\ cfg[i].url.host = h}

\* C12: once the fetch (or parse) of a url FeedSpec has failed, no worker
\* holds it, so processFeeds is never called for it, and no feedItem of it
\* is queued or held by an emailer; a domain worker exits only when every
\* FeedSpec of its host has been fetched, and when run has returned every url
\* FeedSpec whose URL parses, of every host, has been fetched.
C12_FetchFailure ==
    /\ \A i \in 1..Len(cfg) :
         (~cfg[i].exec /\ fetched[i] # <<>> /\ fetched[i][Len(fetched[i])] = "err") =>
             Untouched(i)
    /\ \A w \in DomainWorkers :
         wpc[w] = "done" => \A i \in SourcesOf(whost[w]) : fetched[i] # <<>>
    /\ cpc = "returned" => \A h \in Hosts : \A i \in SourcesOf(h) : fetched[i] # <<>>

\* the fetch of A failed; B, of the same host, and C, of the other host, were
\* fetched after that and the run has returned
C12_Witness ==
    /\ cfg = CfgHosts
    /\ cpc = "returned"
    /\ fetched[1] = << "err" >>
    /\ fetched[3] = << "ok" >>
    /\ fetched[4] = << "ok" >>
    /\ \A w \in DomainWorkers : wpc[w] \in {"none", "done"}

\* run has returned, every worker that was started has exited and every
\* channel is empty
Finished ==
    /\ cpc = "returned"
    /\ \A w \in Workers : wpc[w] \in {"none", "done"}
    /\ \A d \in Emailers : wpc[d] = "done"
    /\ itemChan = <<>>
    /\ \A c \in {"exec"} \cup Hosts : feedCh[c] = <<>>

C14_StoreGrows == [][files \subseteq files' /\ dirs \subseteq dirs']_vars

\* the feed identity, in the store since run 1, was set again at the end of
\* run 2, the write of the content failed, and the entry is still there
C14_Witness ==
    /\ cfg = CfgGrow
    /\ run = 2
    /\ cpc = "returned"
    /\ faults = 1
    /\ keyPath(<< 1 >>) \in files
    /\ keyPath(<< 1 >>) \notin written
    /\ {keyPath(<< 1, 1 >>), keyPath(<< 1, 2 >>)} \subseteq written

\* the identities a store.set can have been called with up to this run: the
\* feed and item identities of the feeds the origins have served
Seeable ==
    UNION { UNION { UNION { {calcFeedUID([fs |-> i, f |-> f, i |-> Item(0, 0)]).uid}
                            \cup {calcItemUID([fs |-> i, f |-> f, i |-> f.items[k]]).uid :
                                  k \in 1..Len(f.items)} :
                            f \in ScriptAt(cfg[i], r) } :
                    r \in 1..run } :
            i \in {j \in 1..Len(cfg) : cfg[j].url.ok} }

\* C15 in the wording of the specification: the identity of every feedItem
\* that is queued on itemChan or held by an emailer that has not finished
\* with it is in the store.
C15_Original ==
    /\ \A j \in 1..Len(itemChan) : keyPath(calcItemUID(itemChan[j]).uid) \in files
    /\ \A d \in Emailers : wpc[d] = "send" => keyPath(EventUID(d)) \in files

\* C15 as the program has it: an entry of the store is the entry of an
\* identity the program has seen; an item identity is not in the store for
\* being queued or held by an emailer: when store.has answers, the item that
\* processFeeds decides to send is not in the store, and neither the decision
\* nor the send on itemChan writes to the store.
C15_Presence ==
    /\ [](files \subseteq {keyPath(u) : u \in Seeable})
    /\ [][\A w \in Ingesters :
            /\ (wpc[w] = "pf_item" /\ wpc'[w] = "pf_send" /\ faults' = faults) =>
                   (ItemPath(w, loc[w].idx) \notin files /\ files' = files)
            /\ (wpc[w] = "pf_send" /\ wpc'[w] # "pf_send" /\ run' = run) =>
                   files' = files]_vars

\* one feedItem is queued and another is held by an emailer that is about to
\* deliver it, and neither identity is in the store
C15_Witness ==
    /\ itemChan # <<>>
    /\ keyPath(calcItemUID(itemChan[1]).uid) \notin files
    /\ \E d \in Emailers : wpc[d] = "send" /\ keyPath(EventUID(d)) \notin files

\* a step in which a store.set (first-run item mark, feed mark, or the
\* emailer's mark) fails at one of its three calls
SetFails ==
    /\ faults' = faults + 1
    /\ run' = run
    /\ \/ \E w \in Ingesters :
            wpc[w] = "pf_item" /\ StepOf(w) /\ (LoopEnd(w) \/ ~loc[w].seenFeed)
       \/ \E d \in Emailers : wpc[d] = "mark" /\ wpc'[d] = "recv"

\* C16: a store.set that fails, at MkdirAll, at Create or at Write, leaves
\* every identity that storage.has did not find before still not found.
C16_SetFailureLeavesAbsent == [][SetFails => files' = files]_vars

\* C17: a store.has in processFeeds changes nothing in the store and the
\* worker goes on (no exit, no panic); its answer is true exactly when Stat
\* answers and the entry exists: seenFeed is set accordingly, and an item of
\* a feed with seenFeed true is sent unless Stat answers and finds the entry.
C17_HasFailsOpen ==
    [][\A w \in Ingesters :
         /\ (StepOf(w) /\ run' = run /\ wpc[w] = "pf_feed" /\ ~calcFeedUID(CurFeed(w)).err) =>
                /\ files' = files
                /\ wpc'[w] = "pf_item"
                /\ loc'[w].seenFeed = (faults' = faults /\ FeedPath(w) \in files)
                /\ panicked' = panicked
         /\ (StepOf(w) /\ run' = run /\ wpc[w] = "pf_item" /\ ~LoopEnd(w)
                /\ loc[w].seenFeed /\ Renders(w, loc[w].idx)) =>
                /\ files' = files
                /\ wpc'[w] \in {"pf_item", "pf_send"}
                /\ (wpc'[w] = "pf_send") = ~(faults' = faults /\ ItemPath(w, loc[w].idx) \in files)
                /\ panicked' = panicked]_vars

\* the Stat of a feed identity that is in the store failed: the worker is in
\* the item loop with seenFeed false
C17_Witness ==
    \E w \in Ingesters :
        /\ InLoop(w)
        /\ hasFailed[w]
        /\ ~loc[w].seenFeed
        /\ FeedPath(w) \in files
        /\ FeedPath(w) \in snap[w]
        /\ ~panicked

\* position k of the feed has been sent on itemChan by worker w
SentAt(w, k) == \E j \in 1..Len(sent[w]) : sent[w][j] = k

\* the items the loop of w has passed whose identity was enqueued or consumed
\* but not in the store when the previous run was killed
PendingPassed(w) ==
    {k \in Positions(w) : k < loc[w].idx /\ Renders(w, k) /\ ItemUID(w, k) \in pendingAtKill}

PFReturns(w) == wpc[w] = "pf_item" /\ wpc'[w] = "recv" /\ run' = run

\* C19: processFeeds leaves the item loop only by writing the feed identity,
\* and does so only when the loop has passed every item of the feed (every
\* item of a feed that was not found is marked unless its store.set failed,
\* every item of a feed that was found has been sent or skipped); the step
\* writes the feed identity and nothing else, also for a feed with no items;
\* seenFeed and the feed do not change while the worker is in the loop.
C19_FeedMarkedLast ==
    [][\A w \in Ingesters :
         /\ PFReturns(w) =>
              /\ LoopEnd(w)
              /\ \A k \in Positions(w) :
                   (Renders(w, k) /\ ~loc[w].seenFeed) =>
                       (ItemPath(w, k) \in files \/ ItemUID(w, k) \in setFailed[w])
              /\ files' \subseteq files \cup {FeedPath(w)}
              /\ faults' = faults => FeedPath(w) \in files'
         /\ (InLoop(w) /\ run' = run) =>
              \/ wpc'[w] \in {"pf_item", "pf_send"}
                   /\ loc'[w].seenFeed = loc[w].seenFeed
                   /\ loc'[w].f = loc[w].f
                   /\ loc'[w].idx \in {loc[w].idx, loc[w].idx + 1}
              \/ PFReturns(w)]_vars

\* in the first run a feed with no items has been handled and its feed
\* identity, the only entry, is in the store
C19_Witness ==
    /\ run = 1
    /\ \E i \in 1..Len(cfg) :
         /\ prev[i] # NoFeed
         /\ prev[i].items = <<>>
         /\ files = {keyPath(calcFeedUID([fs |-> i, f |-> prev[i], i |-> Item(0, 0)]).uid)}

\* C20: the FeedSpecs of one host are fetched in their order in config.Feeds:
\* when the worker of a host has taken FeedSpec t (it sleeps or its fetch is
\* in flight), t is of that host, has not been fetched, and every FeedSpec of
\* the host before t has been fetched, the fetch having ended; no FeedSpec
\* is fetched twice in a run, one whose URL does not parse is never fetched,
\* and when run has returned every url FeedSpec whose URL parses has been
\* fetched exactly once.
C20_SubmissionOrder ==
    /\ \A i \in 1..Len(cfg) :
         /\ Len(fetched[i]) <= 1
         /\ fetched[i] # <<>> => (cfg[i].exec \/ cfg[i].url.ok)
    /\ \A w \in DomainWorkers :
         wpc[w] \in {"sleep", "fetching"} =>
             /\ loc[w].fs \in SourcesOf(whost[w])
             /\ fetched[loc[w].fs] = <<>>
             /\ \A s \in SourcesOf(whost[w]) : s < loc[w].fs => Len(fetched[s]) = 1
    /\ \A h \in Hosts : \A s, t \in SourcesOf(h) :
         (s < t /\ fetched[t] # <<>>) => fetched[s] # <<>>
    /\ cpc = "returned" =>
         \A i \in 1..Len(cfg) : (cfg[i].url.ok /\ ~cfg[i].exec) => Len(fetched[i]) = 1

\* the fetch of the first FeedSpec of h1 has ended and the fetch of the
\* second, which follows a FeedSpec whose URL does not parse, is in flight
C20_Witness ==
    /\ cfg = CfgHosts
    /\ \E w \in DomainWorkers :
         /\ whost[w] = "h1"
         /\ wpc[w] = "fetching"
         /\ loc[w].fs = 3
         /\ fetched[1] = << "ok" >>
         /\ fetched[2] = <<>>
         /\ fetched[3] = <<>>

\* the FeedSpecs with a command that run hands to execFeedCh
ExecSources == {i \in 1..Len(cfg) : cfg[i].exec /\ cfg[i].url.ok}
\* the ingestion workers that hold FeedSpec i
Holders(i) == {w \in Ingesters : loc[w].fs = i}
\* how often FeedSpec i is queued on channel c
Queued(c, i) == Cardinality({j \in 1..Len(feedCh[c]) : feedCh[c][j] = i})

\* C21: a FeedSpec with a command that run has handed to execFeedCh is
\* queued there, or held by one worker of the pool whose command is still to
\* run, or its command has run, exactly one of the three and the last only
\* once; when run has returned every such command has run once; at most
\* config.Exec.Jobs commands are running; a FeedSpec with a command is never
\* on a domain's channel or held by a domain worker, and an exec worker never
\* sleeps for sameDomainRequestDelay.
C21_CommandPool ==
    /\ \A i \in ExecSources :
         /\ Holders(i) \subseteq ExecPool
         /\ \A h \in Hosts : Queued(h, i) = 0
         /\ Queued("exec", i) + Cardinality({w \in Holders(i) : wpc[w] = "exec"}) + Len(fetched[i])
                = (IF i < ci THEN 1 ELSE 0)
         /\ Cardinality(Holders(i)) <= 1
         /\ cpc = "returned" => Len(fetched[i]) = 1
    /\ Cardinality({w \in Ingesters : wpc[w] = "exec"}) <= ExecJobs
    /\ \A w \in ExecWorkers :
         /\ wpc[w] \notin {"sleep", "fetching"}
         /\ w \notin ExecPool => wpc[w] = "none"

\* with a pool of two and three commands, two commands are running, each on
\* its own worker, and the third is queued
C21_Witness ==
    /\ ExecJobs = 2
    /\ wpc["x1"] = "exec"
    /\ wpc["x2"] = "exec"
    /\ loc["x1"].fs # loc["x2"].fs
    /\ Len(feedCh["exec"]) = 1
    /\ Cardinality(ExecSources) = 3

\* C22: the step of processFeeds at an item whose identity does not render
\* writes nothing to the store, sends nothing and moves on to the next item
\* with seenFeed as it was, whether the feed was found in the store or not;
\* the step at a feed whose identity does not render writes nothing, sends
\* nothing and returns to the worker's loop; no item whose identity does not
\* render is ever sent.
C22_RenderFailureSkips ==
    /\ [][\A w \in Ingesters :
            /\ (StepOf(w) /\ run' = run /\ wpc[w] = "pf_item" /\ ~LoopEnd(w)
                   /\ ~Renders(w, loc[w].idx)) =>
                   /\ files' = files
                   /\ itemChan' = itemChan
                   /\ sent' = sent
                   /\ faults' = faults
                   /\ wpc'[w] = "pf_item"
                   /\ loc'[w] = [loc[w] EXCEPT !.idx = @ + 1]
            /\ (StepOf(w) /\ run' = run /\ wpc[w] = "pf_feed" /\ calcFeedUID(CurFeed(w)).err) =>
                   /\ files' = files
                   /\ itemChan' = itemChan
                   /\ emitted' = emitted
                   /\ faults' = faults
                   /\ wpc'[w] = "recv"
                   /\ loc'[w] = NoLoc]_vars
    /\ [](\A w \in Ingesters :
            InLoop(w) => \A j \in 1..Len(sent[w]) : Renders(w, sent[w][j]))

\* the first item of the feed did not render in the call that found the feed
\* new, where the second item was marked, nor in this call, that found the feed
\* in the store and has sent the new second item
C22_Witness ==
    \E w \in Ingesters :
        /\ LoopEnd(w)
        /\ loc[w].seenFeed
        /\ prev[loc[w].fs] = Fb1
        /\ loc[w].f = Fb2
        /\ keyPath(calcItemUID([fs |-> loc[w].fs, f |-> Fb1, i |-> I1]).uid) \in files
        /\ sent[w] = << 2 >>
        /\ Cardinality(files) = 2

\* C23: when any exec worker or domain worker has been started, every
\* emailer has been started; an emailer has returned only when itemChan is
\* closed and empty; so while itemChan is open and a feedItem has been sent
\* on it, every emailer is in its loop, receiving or handling a feedItem.
C23_EmailersFirst ==
    /\ (\E w \in Ingesters : wpc[w] # "none") => \A d \in Emailers : wpc[d] # "none"
    /\ cpc # "startEmailers" => \A d \in Emailers : wpc[d] # "none"
    /\ \A d \in Emailers : wpc[d] = "done" => ("item" \in closed /\ itemChan = <<>>)
    /\ (emitted # <<>> /\ "item" \notin closed) =>
           /\ Emailers # {}
           /\ \A d \in Emailers : wpc[d] \in {"recv", "send", "mark"}

\* a feedItem is queued on the open itemChan while run is still waiting for
\* the ingestion workers, one emailer is delivering and the other is free
C23_Witness ==
    /\ itemChan # <<>>
    /\ "item" \notin closed
    /\ cpc = "waitProc"
    /\ \E d, e \in Emailers : wpc[d] = "send" /\ wpc[e] = "recv"

\* the host a Host string names: letter case does not distinguish hosts
NormalizedHost(h) == IF h = "H1" THEN "h1" ELSE h

\* the domain workers started for a Host string that names host n
WorkersOf(n) == {w \in DomainWorkers : whost[w] # NoHost /\ NormalizedHost(whost[w]) = n}

\* C24: the FeedSpecs whose URLs name the same host, letter case aside, have
\* one worker and one channel, and no two fetches on one host are in flight
\* together.
C24_NormalizedHost ==
    \A h \in Hosts :
        /\ Cardinality(WorkersOf(NormalizedHost(h))) <= 1
        /\ Cardinality({w \in WorkersOf(NormalizedHost(h)) : wpc[w] = "fetching"}) <= 1
        /\ Cardinality({k \in domains : NormalizedHost(k) = NormalizedHost(h)}) <= 1

(* -------------------- store.set taken step by step -------------------- *)
\* everything but the storage and the store.set calls in progress
progVars == << cfg, run, faults, storeErr, cpc, ci, domains, feedCh, itemChan, closed,
               wpc, whost, loc, ev, buf, sent, setFailed, hasFailed, snap, emitted,
               taken, delivered, lastFail, markFailed, prev, lastFetch, elapsed,
               fetched, pendingAtKill, newAtKill, panicked >>

\* a storage left by earlier runs, in which store.has finds the identities B,
\* and no goroutine inside store.set
SetInit ==
    /\ cfg = CfgGrow
    /\ run = 1
    /\ faults = 0
    /\ storeErr = FALSE
    /\ pendingAtKill = {}
    /\ newAtKill = {}
    /\ prev = [i \in 1..Len(cfg) |-> NoFeed]
    /\ Fresh
    /\ \E B \in SUBSET SetKeys :
         /\ files = {keyPath(k) : k \in B}
         /\ written = {keyPath(k) : k \in B}
         /\ dirs = {Dir(keyPath(k)) : k \in B}
         /\ setCalls = [NoSetCalls EXCEPT !.before = B]

\* storage.set is called with identity k: kp := s.keyPath(k)
SetBegin(c, k) ==
    /\ setCalls.pc[c] = "idle"
    /\ setCalls' = [setCalls EXCEPT !.pc[c] = "mkdir", !.key[c] = k]
    /\ UNCHANGED << progVars, storeVars >>

\* storage.set: os.MkdirAll(d, os.ModePerm) returns nil
SetMkdirAll(c) ==
    /\ setCalls.pc[c] = "mkdir"
    /\ dirs' = dirs \cup {Dir(keyPath(setCalls.key[c]))}
    /\ setCalls' = [setCalls EXCEPT !.pc[c] = "create"]
    /\ UNCHANGED << progVars, files, written >>

\* storage.set: os.Create(kp) returns a file: the entry exists and is empty
SetCreate(c) ==
    /\ setCalls.pc[c] = "create"
    /\ Dir(keyPath(setCalls.key[c])) \in dirs
    /\ files' = files \cup {keyPath(setCalls.key[c])}
    /\ written' = written \ {keyPath(setCalls.key[c])}
    /\ setCalls' = [setCalls EXCEPT !.pc[c] = "write"]
    /\ UNCHANGED << progVars, dirs >>

\* storage.set: f.Write([]byte(k)) returns nil, and set returns
SetWrite(c) ==
    /\ setCalls.pc[c] = "write"
    /\ written' = written \cup {keyPath(setCalls.key[c])}
    /\ setCalls' = [setCalls EXCEPT !.pc[c] = "idle", !.key[c] = << >>,
                                    !.marked = @ \cup {setCalls.key[c]}]
    /\ UNCHANGED << progVars, files, dirs >>

SetNext ==
    \/ \E c \in SetCallers, k \in SetKeys : SetBegin(c, k)
    \/ \E c \in SetCallers : SetMkdirAll(c)
    \/ \E c \in SetCallers : SetCreate(c)
    \/ \E c \in SetCallers : SetWrite(c)

\* two goroutines calling store.set again and again, every call succeeding
SetSpec == SetInit /\ [][SetNext]_vars

\* the identities store.has reports present
Present == {k \in SetKeys : has(k, "ok")}
\* the identities of the calls that are past os.Create
PastCreate == {setCalls.key[c] : c \in {b \in SetCallers : setCalls.pc[b] = "write"}}

\* C25: whatever the interleaving of the steps of successful store.set calls
\* by two goroutines, on the same or on different identities, one after
\* another or again on an identity already written: store.has reports every
\* identity it reported at the start and every identity whose store.set has
\* returned, and no identity besides these and those of the calls that are
\* past os.Create; with no call in progress it reports exactly the
\* identities of the start united with the marked ones, and the paths of two
\* identities differ.
C25_SetCommutes ==
    /\ setCalls.before \cup setCalls.marked \subseteq Present
    /\ Present \subseteq setCalls.before \cup setCalls.marked \cup PastCreate
    /\ (\A c \in SetCallers : setCalls.pc[c] = "idle") =>
           /\ Present = setCalls.before \cup setCalls.marked
           /\ written = files
    /\ \A j, k \in SetKeys : keyPath(j) = keyPath(k) => j = k

\* an identity was in the store at the start, another has been marked; one
\* goroutine is writing the marked identity again while the other is about
\* to create the third identity, whose shard directory exists already
C25_Witness ==
    /\ setCalls.before = {<< 1 >>}
    /\ setCalls.marked = {<< 1, 1 >>}
    /\ setCalls.pc["d1"] = "write"
    /\ setCalls.key["d1"] = << 1, 1 >>
    /\ setCalls.pc["w1"] = "create"
    /\ setCalls.key["w1"] = << 1, 3 >>
    /\ Dir(keyPath(<< 1, 3 >>)) \in dirs
    /\ Present = {<< 1 >>, << 1, 1 >>}

\* the item identities of a feed n.f of FeedSpec n.fs
UIDsOf(n) ==
    {calcItemUID([fs |-> n.fs, f |-> n.f, i |-> n.f.items[k]]).uid :
        k \in {j \in 1..Len(n.f.items) : n.f.items[j].uidOk}}
\* the path of the feed identity of feed n.f of FeedSpec n.fs
FeedPathOf(n) == keyPath(calcFeedUID([fs |-> n.fs, f |-> n.f, i |-> Item(0, 0)]).uid)
\* another FeedSpec whose feed has the feed identity of w's feed has been
\* handled to the end in this run
MarkedByOther(w) ==
    \E i \in 1..Len(cfg) :
        /\ i # loc[w].fs
        /\ fetched[i] = << "ok" >>
        /\ prev[i] # NoFeed
        /\ prev[i].uidOk
        /\ FeedPathOf([fs |-> i, f |-> prev[i]]) = FeedPath(w)

\* C26 in the wording of the specification: when a kill interrupted the
\* first processFeeds call for a feed, the next run sends no feedItem for an
\* item that the feed had.
C26_Original ==
    \A w \in Ingesters : \A n \in newAtKill :
        (InLoop(w) /\ n.fs = loc[w].fs) =>
            \A j \in 1..Len(sent[w]) : ItemUID(w, sent[w][j]) \notin UIDsOf(n)

\* C26 as the program has it: when a kill interrupted the first processFeeds
\* call for a feed, the feed identity was not in the store; the call of the
\* next run for that FeedSpec does not find it, sends nothing and marks the
\* items again, unless the worker of another FeedSpec whose feed has the
\* same feed identity has written it in the meantime; then the call sends
\* the items that are not in the store.
C26_CrashSafe ==
    \A w \in Ingesters : \A n \in newAtKill :
        (InLoop(w) /\ n.fs = loc[w].fs /\ FeedPathOf(n) = FeedPath(w)) =>
            \/ /\ ~loc[w].seenFeed
               /\ sent[w] = <<>>
               /\ wpc[w] # "pf_send"
            \/ /\ loc[w].seenFeed
               /\ MarkedByOther(w)

\* the kill came while the first call for a feed with an item was in its
\* loop; the next run has handled the same feed to the end of the loop, did
\* not find the feed identity, has marked the item and sent nothing
C26_Witness ==
    \E w \in Ingesters : \E n \in newAtKill :
        /\ LoopEnd(w)
        /\ n.fs = loc[w].fs
        /\ n.f = loc[w].f
        /\ UIDsOf(n) # {}
        /\ ~loc[w].seenFeed
        /\ sent[w] = <<>>
        /\ emitted = <<>>
        /\ \A u \in UIDsOf(n) : keyPath(u) \in files

\* C27: the sender an emailer has rendered for the feedItem it is delivering
\* is the output of the sender template on that feedItem and nothing else,
\* whatever feedItems the emailer handled before.
C27_RenderIndependent ==
    \A d \in Emailers :
        wpc[d] \in {"send", "mark"} => ev[d].from = Sender(<< >>, ev[d].fi)

\* C28: a processFeeds call for a feed whose identity is in the store when
\* the call begins takes the branch of a feed that was found (seenFeed is
\* true), also when a Stat fails, and no item of the feed that was not in the
\* store when the call began is in the store without a feedItem with its
\* identity having been sent on itemChan in this run.
C28_EstablishedBranch ==
    \A w \in Ingesters :
        (InLoop(w) /\ FeedPath(w) \in snap[w]) =>
            /\ loc[w].seenFeed
            /\ \A k \in NewAtStart(w) :
                 (k < loc[w].idx /\ Renders(w, k) /\ ItemPath(w, k) \in files) =>
                     \E j \in 1..Len(emitted) : emitted[j] = ItemUID(w, k)

====
